---- MODULE Spec2Model ----
(***************************************************************************)
(* TruthScan (src/truthscan.py): the report-assembly pipeline of class     *)
(* TruthScan.  analyze() runs four phases over fixed tables (satellite,    *)
(* flight, military, social media), accumulates self.results and then      *)
(* calls generate_summary().  The environment is the file system (the      *)
(* placeholder images and the two report files), the Nitter mirrors, the   *)
(* clock and the random module.                                            *)
(*                                                                         *)
(* Dates are day numbers: strftime('%Y-%m-%d') keeps the calendar day of a *)
(* datetime and drops the time of day, and ISO dates order as day numbers. *)
(***************************************************************************)
EXTENDS Integers, Sequences, FiniteSets, TLC

VARIABLES
    days,               \* self.days
    include_synthetic,  \* self.include_synthetic
    start_date,         \* self.start_date
    end_date,           \* self.end_date
    results,            \* self.results (the four collections)
    now,                \* the calendar day datetime.now() reads
    seed,               \* the draw the random module hands out in this run
    pc,                 \* position of the run inside analyze()
    idx,                \* 1-based index of the next entry of the current table
    calls,              \* the methods analyze() has invoked, in order
    visited,            \* the loop iterations entered so far, as <<method, index>>
    errors,             \* logger.error records written by the phases so far
    current_term,       \* loop variable `term` of analyze_social_media
    unreachable,        \* every GET issued so far in this run raised
    tweets,             \* value returned by the last _scrape_social_media call
    requests,           \* mirrors contacted by the last _scrape_social_media call
    generated,          \* search terms _generate_synthetic_social_media ran for
    summary_file,       \* analysis_results/truthscan_summary.txt
    json_file,          \* analysis_results/truthscan_results.json
    synthetic_flights,  \* local list of _generate_synthetic_flight_data
    synthetic_activities, \* local list of _generate_synthetic_military_data
    instance,           \* position of "for instance in nitter_instances"
    served              \* answers the mirrors gave to the call in progress

vars == <<days, include_synthetic, start_date, end_date, results, now, seed,
          pc, idx, calls, visited, errors, current_term, unreachable, tweets,
          requests, generated, summary_file, json_file, synthetic_flights,
          synthetic_activities, instance, served>>

----------------------------------------------------------------------------
(* Bounds of the model *)

\* days takes the values -1, 0 and MaxDays (argparse accepts any int for --days)
MaxDays == 1

\* a draw of the random module is one of the quantiles 0..Resolution of its range
Resolution == 1

\* at most this many file writes (placeholder images, report files) fail in a run
MaxWriteFailures == 1

\* the mirrors serve posts for at most this many search terms in a run
MaxFetchedTerms == 1

\* midnights that may pass during one run of analyze()
MaxTicks == 1

\* timeline items on the longest page a mirror serves
MaxDivs == 11

----------------------------------------------------------------------------
(* Program constants *)

\* range(5) of the three generators
RecordsPerCall == 5

\* tweet_divs[:10]
TweetLimit == 10

NoFile == "absent"

nuclear_sites ==
    << "Kahuta (Khan Research Laboratories)",
       "Khushab Nuclear Complex",
       "Chashma Nuclear Power Plant",
       "Karachi Nuclear Power Plant (KANUPP)",
       "Kundian Nuclear Complex" >>

areas ==
    << [name |-> "Kahuta Region", bounds |-> "33.5-33.7,73.3-73.5"],
       [name |-> "Rawalpindi Air Base", bounds |-> "33.6-33.65,73.0-73.1"],
       [name |-> "Indian Border Area (Punjab)", bounds |-> "32.0-33.0,74.5-75.0"] >>

bases ==
    << [name |-> "Sargodha Air Base", type |-> "Pakistani Air Force"],
       [name |-> "Kamra Air Base", type |-> "Pakistani Air Force"],
       [name |-> "Masroor Air Base", type |-> "Pakistani Air Force"],
       [name |-> "Pathankot Air Base", type |-> "Indian Air Force"],
       [name |-> "Adampur Air Base", type |-> "Indian Air Force"] >>

search_terms ==
    << "India Pakistan conflict",
       "Pakistan nuclear facility",
       "Indian airstrike Pakistan",
       "Pakistan military alert",
       "India Pakistan border tension" >>

nitter_instances ==
    << "https://nitter.net",
       "https://nitter.lacontrevoie.fr",
       "https://nitter.poast.org" >>

mil_aircraft ==
    << "C-130", "F-16", "MiG-29", "Su-30MKI", "Mi-17", "CH-47", "P-8I", "E-2C" >>

activities ==
    << [type |-> "Normal operations", significance |-> "Low"],
       [type |-> "Training exercise", significance |-> "Low"],
       [type |-> "Increased readiness", significance |-> "Medium"],
       [type |-> "Alert status change", significance |-> "Medium"],
       [type |-> "Unusual deployment", significance |-> "High"] >>

\* weights = [0.4, 0.3, 0.15, 0.1, 0.05], in hundredths
weights == <<40, 30, 15, 10, 5>>

----------------------------------------------------------------------------
(* The random module.  A draw u in 0..Resolution selects a quantile of the   *)
(* requested range: 0 the lowest value, Resolution the highest.             *)

Unit == 0 .. Resolution

\* random.randint(a, b): an integer N with a <= N <= b, both ends included
randint(a, b, u) == a + (u * (b - a)) \div Resolution

\* random.randint(a, b) raises ValueError when the range a..b is empty
randint_raises(a, b) == a > b

\* random.choice(seq): an element of seq
choice(seq, u) == seq[1 + (u * (Len(seq) - 1)) \div Resolution]

\* the cumulative weights random.choices bisects: w[1] + ... + w[k]
RECURSIVE cum_weights(_, _)
cum_weights(w, k) == IF k = 0 THEN 0 ELSE cum_weights(w, k - 1) + w[k]

\* random() * total for the draw u, in the unit of the weights: random() < 1
weighted_point(w, u) == (u * (cum_weights(w, Len(w)) - 1)) \div Resolution

\* random.choices(population, weights=w)[0] when random() * total is x: the
\* element whose band of the cumulative weights holds x
choices(population, w, x) ==
    population[CHOOSE k \in DOMAIN population :
                   cum_weights(w, k - 1) <= x /\ x < cum_weights(w, k)]

\* (datetime.now() - timedelta(days=n)).strftime('%Y-%m-%d')
days_ago(today, n) == today - n

\* the days read by the five iterations of a generator when no midnight
\* passes during the call
steady(day) == [i \in 1 .. RecordsPerCall |-> day]

\* the days the five iterations of a generator may read from `day` on: the
\* clock never runs backwards and at most MaxTicks midnights pass in a run
clocks_from(day) ==
    {clock \in [1 .. RecordsPerCall -> day .. MaxTicks] :
        \A i \in 1 .. RecordsPerCall - 1 : clock[i] <= clock[i + 1]}

----------------------------------------------------------------------------
(* Synthetic Data Generator *)

\* one draw per random call of a loop iteration, all taken from the run's seed
seeded(s) == [date |-> s, kind |-> s, altitude |-> s, speed |-> s, user |-> s]

\* variant: the unusual profile is given to the second iteration
flight_unusual_second(i, today, d, u) ==
    LET is_unusual == (i = 1)
    IN  [ date          |-> days_ago(today, randint(0, d, u.date)),
          aircraft_type |-> choice(mil_aircraft, u.kind),
          altitude      |-> IF ~is_unusual THEN randint(15000, 35000, u.altitude)
                                           ELSE randint(5000, 10000, u.altitude),
          speed         |-> IF ~is_unusual THEN randint(350, 500, u.speed)
                                           ELSE randint(200, 350, u.speed),
          pattern       |-> IF ~is_unusual THEN "Standard transit"
                                           ELSE "Unusual circling pattern",
          transponder   |-> IF ~is_unusual THEN "Active" ELSE "Intermittent",
          notes         |-> IF ~is_unusual THEN "Normal military movement"
                            ELSE "Unusual activity - requires verification",
          synthetic     |-> TRUE ]

\* the record built by iteration i (0-based) of _generate_synthetic_flight_data
flight(i, today, d, u) ==
    LET is_unusual == (i = 0)
    IN  [ date          |-> days_ago(today, randint(0, d, u.date)),
          aircraft_type |-> choice(mil_aircraft, u.kind),
          altitude      |-> IF ~is_unusual THEN randint(15000, 35000, u.altitude)
                                           ELSE randint(5000, 10000, u.altitude),
          speed         |-> IF ~is_unusual THEN randint(350, 500, u.speed)
                                           ELSE randint(200, 350, u.speed),
          pattern       |-> IF ~is_unusual THEN "Standard transit"
                                           ELSE "Unusual circling pattern",
          transponder   |-> IF ~is_unusual THEN "Active" ELSE "Intermittent",
          notes         |-> IF ~is_unusual THEN "Normal military movement"
                            ELSE "Unusual activity - requires verification",
          synthetic     |-> TRUE ]

\* _generate_synthetic_flight_data(area_name) with every draw taken from s;
\* clock[i] is the day datetime.now() reads in iteration i
generate_synthetic_flight_data(area_name, clock, d, s) ==
    [i \in 1 .. RecordsPerCall |-> flight(i - 1, clock[i], d, seeded(s))]

\* an iteration that files every activity type under the first label
activity_first_label(base_name, today, d, u) ==
    LET activity_type == choices(activities, weights, u.kind)
    IN  [ date         |-> days_ago(today, randint(0, d, u.date)),
          type         |-> activity_type.type,
          significance |-> activities[1].significance,
          description  |-> <<activity_type.type, "observed at", base_name>>,
          confidence   |-> "Medium - requires verification",
          synthetic    |-> TRUE ]

\* the record built by one iteration of _generate_synthetic_military_data;
\* u.kind is the point random.choices draws, u.date the draw of randint
activity(base_name, today, d, u) ==
    LET activity_type == choices(activities, weights, u.kind)
    IN  [ date         |-> days_ago(today, randint(0, d, u.date)),
          type         |-> activity_type.type,
          significance |-> activity_type.significance,
          description  |-> <<activity_type.type, "observed at", base_name>>,
          confidence   |-> "Medium - requires verification",
          synthetic    |-> TRUE ]

\* _generate_synthetic_military_data(base_name, base_type) with draws from s;
\* clock[i] is the day datetime.now() reads in iteration i
generate_synthetic_military_data(base_name, base_type, clock, d, s) ==
    [i \in 1 .. RecordsPerCall |->
        activity(base_name, clock[i], d,
                 [seeded(s) EXCEPT !.kind = weighted_point(weights, s)])]

\* the lower-cased words of each search term ("x in search_term.lower()")
term_words(term) ==
    CASE term = "India Pakistan conflict"       -> {"india", "pakistan", "conflict"}
      [] term = "Pakistan nuclear facility"     -> {"pakistan", "nuclear", "facility"}
      [] term = "Indian airstrike Pakistan"     -> {"indian", "airstrike", "pakistan"}
      [] term = "Pakistan military alert"       -> {"pakistan", "military", "alert"}
      [] term = "India Pakistan border tension" -> {"india", "pakistan", "border", "tension"}
      [] OTHER                                  -> {}

template_category(search_term) ==
    IF "nuclear" \in term_words(search_term) THEN "nuclear"
    ELSE IF term_words(search_term) \cap {"military", "airstrike", "alert"} # {}
         THEN "military"
         ELSE "conflict"

\* the five templates of a category, by position
templates(category) == [k \in 1 .. 5 |-> <<category, k>>]

\* the post built by one iteration of _generate_synthetic_social_media
synthetic_post(search_term, today, d, u) ==
    [ platform  |-> "Twitter (synthetic)",
      user      |-> <<"Synthetic_User", randint(1000, 9999, u.user)>>,
      content   |-> choice(templates(template_category(search_term)), u.kind),
      date      |-> days_ago(today, randint(0, d, u.date)),
      synthetic |-> TRUE,
      source    |-> "Algorithmically generated for analysis" ]

\* _generate_synthetic_social_media(search_term) with every draw taken from s;
\* clock[i] is the day datetime.now() reads in iteration i
generate_synthetic_social_media(search_term, clock, d, s) ==
    [i \in 1 .. RecordsPerCall |->
        synthetic_post(search_term, clock[i], d, seeded(s))]

----------------------------------------------------------------------------
(* Best-effort web fetcher.  A mirror's answer to one GET is                *)
(*   kind "raise"  : requests.get raised (unreachable, timeout)             *)
(*   kind "non200" : a response whose status_code is not 200                *)
(*   kind "ok"     : status 200 with `divs` timeline-item divs, of which    *)
(*                   those numbered in `bad` raise while being parsed       *)

Raise == [kind |-> "raise", divs |-> 0, bad |-> {}]

Non200 == [kind |-> "non200", divs |-> 0, bad |-> {}]

Ok(n) == [kind |-> "ok", divs |-> n, bad |-> {}]

\* variant: the scraped entry is tagged as synthetic
tweet_tagged_synthetic(i, k) ==
    [ platform  |-> "Twitter",
      user      |-> <<"username", k>>,
      content   |-> <<"tweet-content", k>>,
      date      |-> <<"tweet-date", k>>,
      synthetic |-> TRUE,
      source    |-> <<"Nitter scrape via", nitter_instances[i]>> ]

\* the entry appended for div k of the page served by mirror i
tweet(i, k) ==
    [ platform  |-> "Twitter",
      user      |-> <<"username", k>>,
      content   |-> <<"tweet-content", k>>,
      date      |-> <<"tweet-date", k>>,
      synthetic |-> FALSE,
      source    |-> <<"Nitter scrape via", nitter_instances[i]>> ]

Min(a, b) == IF a <= b THEN a ELSE b

\* variant: the inner loop runs over every div of the page
parse_tweets_unlimited(i, r) ==
    LET kept == SelectSeq([k \in 1 .. r.divs |-> k],
                          LAMBDA k : k \notin r.bad)
    IN  [j \in 1 .. Len(kept) |-> tweet(i, kept[j])]

\* the inner loop over tweet_divs[:10]: a div whose parsing raises is skipped
parse_tweets(i, r) ==
    LET kept == SelectSeq([k \in 1 .. Min(r.divs, TweetLimit) |-> k],
                          LAMBDA k : k \notin r.bad)
    IN  [j \in 1 .. Len(kept) |-> tweet(i, kept[j])]

\* variant: an exception of requests.get leaves the loop and the method
try_instance_uncaught(i, r) ==
    IF r.kind = "raise"
    THEN [outcome |-> "raise", tweets |-> <<>>]
    ELSE IF r.kind = "ok" /\ r.divs > 0
         THEN [outcome |-> "return", tweets |-> parse_tweets(i, r)]
         ELSE [outcome |-> "continue", tweets |-> <<>>]

\* the body of "for instance in nitter_instances" for mirror i answering r:
\* an exception is caught and logged, a status other than 200 and a page
\* without timeline items go on to the next mirror, and a page with timeline
\* items returns whatever entries were parsed from it
try_instance(i, r) ==
    IF r.kind = "raise"
    THEN [outcome |-> "continue", tweets |-> <<>>]
    ELSE IF r.kind = "ok" /\ r.divs > 0
         THEN [outcome |-> "return", tweets |-> parse_tweets(i, r)]
         ELSE [outcome |-> "continue", tweets |-> <<>>]

\* the loop over nitter_instances from mirror i on, given each mirror's answer
RECURSIVE scrape_from(_, _)
scrape_from(i, resp) ==
    IF i > Len(nitter_instances)
    THEN [tweets |-> <<>>, requests |-> <<>>]
    ELSE IF try_instance(i, resp[i]).outcome = "return"
         THEN [tweets |-> try_instance(i, resp[i]).tweets, requests |-> <<i>>]
         ELSE LET rest == scrape_from(i + 1, resp)
              IN  [tweets |-> rest.tweets, requests |-> <<i>> \o rest.requests]

\* _scrape_social_media(search_term)
scrape_social_media(search_term, resp) == scrape_from(1, resp)

----------------------------------------------------------------------------
(* Analysis Orchestrator *)

\* the answers a mirror gives in a run of the whole pipeline: unreachable,
\* refusing (non-200), or serving a page with one post
MirrorResponses == {Raise, Non200, Ok(1)}

\* variant: the military phase is called before the flight phase
next_call_military_first(method) ==
    CASE method = "analyze"                    -> "analyze_satellite_imagery"
      [] method = "analyze_satellite_imagery"  -> "analyze_military_movements"
      [] method = "analyze_military_movements" -> "analyze_flight_data"
      [] method = "analyze_flight_data"        -> "analyze_social_media"
      [] method = "analyze_social_media"       -> "generate_summary"
      [] OTHER                                 -> "done"

\* the order of the calls in the body of analyze()
next_call(method) ==
    CASE method = "analyze"                    -> "analyze_satellite_imagery"
      [] method = "analyze_satellite_imagery"  -> "analyze_flight_data"
      [] method = "analyze_flight_data"        -> "analyze_military_movements"
      [] method = "analyze_military_movements" -> "analyze_social_media"
      [] method = "analyze_social_media"       -> "generate_summary"
      [] OTHER                                 -> "done"

\* the table a phase iterates
table(method) ==
    CASE method = "analyze_satellite_imagery"  -> nuclear_sites
      [] method = "analyze_flight_data"        -> areas
      [] method = "analyze_military_movements" -> bases
      [] method = "analyze_social_media"       -> search_terms
      [] OTHER                                 -> <<>>

date_range == [start |-> start_date, end |-> end_date]

\* TruthScan.__init__(claim, days, include_synthetic)
\* day 0 is the day of the clock read of line 56; midnight may pass before the
\* read of line 57
Init ==
    /\ days \in {-1, 0, MaxDays}
    /\ include_synthetic \in BOOLEAN
    /\ now \in {0, 1}
    /\ start_date = days_ago(0, days)
    /\ end_date = days_ago(now, 0)
    /\ results = [ satellite_analysis |-> <<>>, flight_data |-> <<>>,
                   military_movements |-> <<>>, social_media |-> <<>> ]
    /\ seed \in (IF include_synthetic THEN Unit ELSE {0})
    /\ pc = "constructed"
    /\ idx = 1
    /\ calls = <<>>
    /\ visited = <<>>
    /\ errors = <<>>
    /\ current_term = ""
    /\ unreachable = TRUE
    /\ tweets = <<>>
    /\ requests = <<>>
    /\ generated = <<>>
    /\ summary_file = NoFile
    /\ json_file = NoFile
    /\ synthetic_flights = <<>>
    /\ synthetic_activities = <<>>
    /\ instance = 1
    /\ served = <<>>

\* control leaves the loop iteration of entry idx of the current phase:
\* the next entry, or the return of the phase and the next call of analyze()
Advance ==
    IF idx < Len(table(pc))
    THEN /\ idx' = idx + 1
         /\ UNCHANGED <<pc, calls>>
    ELSE /\ idx' = 1
         /\ pc' = next_call(pc)
         /\ calls' = Append(calls, next_call(pc))

\* analyze() is entered and calls analyze_satellite_imagery()
Analyze ==
    /\ pc = "constructed"
    /\ pc' = next_call("analyze")
    /\ calls' = Append(calls, next_call("analyze"))
    /\ UNCHANGED <<days, include_synthetic, start_date, end_date, results, now,
                   seed, idx, visited, errors, current_term, unreachable, tweets,
                   requests, generated, summary_file, json_file,
                   synthetic_flights, synthetic_activities,
                   instance, served>>

\* the sub-record analyze_satellite_imagery appends for a site
satellite_record(site) ==
    [ site_name         |-> site,
      date_range        |-> date_range,
      satellite_sources |-> << [name |-> "Sentinel Hub (free)",
                                url  |-> <<"sentinel-hub", site>>],
                               [name |-> "Google Maps Satellite",
                                url  |-> <<"google-maps", site>>] >>,
      placeholder_image |-> <<"satellite_images", site, end_date>>,
      analysis_tip      |->
          "Look for new craters, debris, fire damage, or structural changes" ]

\* variant: the sub-record is appended before the placeholder is created
satellite_try_append_first(collection, site, saved) ==
    Append(collection, satellite_record(site))

\* what the try block of analyze_satellite_imagery leaves in satellite_analysis:
\* `saved` tells whether _create_satellite_placeholder returned or raised
satellite_try(collection, site, saved) ==
    IF saved THEN Append(collection, satellite_record(site)) ELSE collection

\* one iteration of the loop of analyze_satellite_imagery
AnalyzeSatelliteSite ==
    /\ pc = "analyze_satellite_imagery"
    /\ \E saved \in BOOLEAN :
         /\ ~saved => Len(errors) < MaxWriteFailures
         /\ results' = [results EXCEPT !.satellite_analysis =
                            satellite_try(@, nuclear_sites[idx], saved)]
         /\ errors' = IF saved THEN errors
                      ELSE Append(errors, <<pc, nuclear_sites[idx]>>)
    /\ Advance
    /\ visited' = Append(visited, <<pc, idx>>)
    /\ UNCHANGED <<days, include_synthetic, start_date, end_date, now, seed,
                   current_term, unreachable, tweets, requests, generated,
                   summary_file, json_file, synthetic_flights,
                   synthetic_activities, instance, served>>

\* the sub-record analyze_flight_data appends for an area
flight_record(area) ==
    [ area              |-> area.name,
      geographic_bounds |-> area.bounds,
      date_range        |-> date_range,
      free_data_sources |-> << [name |-> "ADS-B Exchange"],
                               [name |-> "Flightradar24 Free Tier"],
                               [name |-> "RadarBox Free"] >> ]

\* one iteration of the loop of analyze_flight_data: the sub-record is
\* appended first, the synthetic sample is attached to it afterwards
\* clock holds the days its five records read
AnalyzeFlightAreaAt(clock) ==
    /\ pc = "analyze_flight_data"
    /\ IF include_synthetic THEN TRUE
       ELSE clock = steady(now)                   \* no generator, no read
    /\ LET area == areas[idx]
           appended == Append(results.flight_data, flight_record(area))
       IN  IF ~include_synthetic
           THEN /\ results' = [results EXCEPT !.flight_data = appended]
                /\ now' = now
                /\ Advance
           ELSE IF randint_raises(0, days)
                THEN /\ results' = [results EXCEPT !.flight_data = appended]
                     /\ now' = clock[1]
                     /\ pc' = "raised"
                     /\ UNCHANGED <<idx, calls>>
                ELSE /\ results' = [results EXCEPT !.flight_data =
                            [appended EXCEPT ![Len(appended)] =
                                @ @@ [synthetic_sample_data |->
                                        generate_synthetic_flight_data(
                                            area.name, clock, days, seed)]]]
                     /\ now' = clock[RecordsPerCall]
                     /\ Advance
    /\ visited' = Append(visited, <<pc, idx>>)
    /\ UNCHANGED <<days, include_synthetic, start_date, end_date, seed,
                   errors, current_term, unreachable, tweets, requests, generated,
                   summary_file, json_file, synthetic_flights,
                   synthetic_activities, instance, served>>

\* the sub-record analyze_military_movements builds for a base
base_analysis(base) ==
    [ base_name         |-> base.name,
      type              |-> base.type,
      date_range        |-> date_range,
      free_data_sources |-> << [name |-> "GDELT Project"],
                               [name |-> "LiveUAMap"],
                               [name |-> "Bellingcat's OSINT Toolkit"] >> ]

\* one iteration of the loop of analyze_military_movements: the sub-record is
\* appended last, after the synthetic activity has been attached to it
\* clock holds the days its five records read
AnalyzeMilitaryBaseAt(clock) ==
    /\ pc = "analyze_military_movements"
    /\ IF include_synthetic THEN TRUE
       ELSE clock = steady(now)                   \* no generator, no read
    /\ LET base == bases[idx]
       IN  IF ~include_synthetic
           THEN /\ results' = [results EXCEPT !.military_movements =
                                   Append(@, base_analysis(base))]
                /\ now' = now
                /\ Advance
           ELSE IF randint_raises(0, days)
                THEN /\ now' = clock[1]
                     /\ pc' = "raised"
                     /\ UNCHANGED <<results, idx, calls>>
                ELSE /\ results' = [results EXCEPT !.military_movements =
                            Append(@, base_analysis(base) @@
                                [synthetic_activity_data |->
                                    generate_synthetic_military_data(
                                        base.name, base.type, clock, days, seed)])]
                     /\ now' = clock[RecordsPerCall]
                     /\ Advance
    /\ visited' = Append(visited, <<pc, idx>>)
    /\ UNCHANGED <<days, include_synthetic, start_date, end_date, seed,
                   errors, current_term, unreachable, tweets, requests, generated,
                   summary_file, json_file, synthetic_flights,
                   synthetic_activities, instance, served>>

\* variant: the fallback ignores what the fetcher returned
use_synthetic_ignoring_scrape(scraped, include) == include

\* variant: the fallback test on the fetched posts is inverted
use_synthetic_inverted(scraped, include) == scraped # <<>> /\ include

\* variant: the fallback ignores the synthetic flag
use_synthetic_ignoring_flag(scraped, include) == scraped = <<>>

\* "if not tweets and self.include_synthetic"
use_synthetic(scraped, include) == scraped = <<>> /\ include

\* the sub-record analyze_social_media appends for a term
\* variant: the sub-record reports the size of a generated batch
search_result_batch_count(term, posts) ==
    [ search_term   |-> term,
      date_range    |-> date_range,
      results_count |-> RecordsPerCall,
      posts         |-> posts ]

search_result(term, posts) ==
    [ search_term   |-> term,
      date_range    |-> date_range,
      results_count |-> Len(posts),
      posts         |-> posts ]

\* variant: the term is recorded even when it has no posts
record_term_always(collection, term, posts) ==
    Append(collection, search_result(term, posts))

\* "if tweets: ... append(search_result)"
record_term(collection, term, posts) ==
    IF posts # <<>> THEN Append(collection, search_result(term, posts))
    ELSE collection

\* the sub-records of social_media that hold fetched posts
fetched_terms(collection) ==
    {k \in 1 .. Len(collection) :
        collection[k].posts # <<>> /\ ~collection[k].posts[1].synthetic}

\* one iteration of the loop of analyze_social_media; clock holds the days
\* the five records of the fallback read
AnalyzeSocialTermAt(clock) ==
    /\ pc = "analyze_social_media"
    /\ \E resp \in [1 .. Len(nitter_instances) -> MirrorResponses] :
         LET scraped == scrape_social_media(search_terms[idx], resp)
         IN  /\ scraped.tweets # <<>> =>
                    Cardinality(fetched_terms(results.social_media)) < MaxFetchedTerms
             \* no fallback, no read
             /\ IF use_synthetic(scraped.tweets, include_synthetic) THEN TRUE
                ELSE clock = steady(now)
             \* a mirror that is not contacted gives no answer
             /\ \A i \in DOMAIN resp :
                    i > Len(scraped.requests) => resp[i] = Raise
             /\ current_term' = search_terms[idx]
             /\ unreachable' = (unreachable /\ \A i \in DOMAIN resp : resp[i] = Raise)
             /\ tweets' = scraped.tweets
             /\ requests' = scraped.requests
             /\ IF use_synthetic(scraped.tweets, include_synthetic)
                THEN IF randint_raises(0, days)
                     THEN /\ pc' = "raised"
                          /\ UNCHANGED <<results, generated, idx, calls, now>>
                     ELSE /\ generated' = Append(generated, current_term')
                          /\ results' = [results EXCEPT !.social_media =
                                 record_term(@, current_term',
                                     generate_synthetic_social_media(
                                         current_term', clock, days, seed))]
                          /\ now' = clock[RecordsPerCall]
                          /\ Advance
                ELSE /\ results' = [results EXCEPT !.social_media =
                            record_term(@, current_term', scraped.tweets)]
                     /\ UNCHANGED <<generated, now>>
                     /\ Advance
    /\ visited' = Append(visited, <<pc, idx>>)
    /\ UNCHANGED <<days, include_synthetic, start_date, end_date, seed,
                   errors, summary_file, json_file, synthetic_flights,
                   synthetic_activities, instance, served>>

----------------------------------------------------------------------------
(* Report Serializer *)

RECURSIVE sum_results_count(_)
sum_results_count(collection) ==
    IF collection = <<>> THEN 0
    ELSE Head(collection).results_count + sum_results_count(Tail(collection))

\* variant: the sub-records are counted instead of their posts
social_posts_counting_terms(collection) == Len(collection)

\* "sum(term['results_count'] for term in social_media) if social_media else 0"
social_posts(collection) ==
    IF collection # <<>> THEN sum_results_count(collection) ELSE 0

\* the counts interpolated into the text summary
summary(r) ==
    [ sat_sites      |-> Len(r.satellite_analysis),
      flight_areas   |-> Len(r.flight_data),
      military_bases |-> Len(r.military_movements),
      social_terms   |-> Len(r.social_media),
      social_posts   |-> social_posts(r.social_media),
      date_range     |-> date_range ]

\* generate_summary(): the text summary is written first, then the JSON
\* results; an unwritable destination raises out of analyze()
GenerateSummary ==
    /\ pc = "generate_summary"
    /\ \/ /\ summary_file' = summary(results)
          /\ json_file' = results
          /\ pc' = "done"
       \/ /\ Len(errors) < MaxWriteFailures
          /\ UNCHANGED <<summary_file, json_file>>
          /\ pc' = "raised"
       \/ /\ Len(errors) < MaxWriteFailures
          /\ summary_file' = summary(results)
          /\ UNCHANGED json_file
          /\ pc' = "raised"
    /\ UNCHANGED <<days, include_synthetic, start_date, end_date, results, now,
                   seed, idx, calls, visited, errors, current_term, unreachable, tweets,
                   requests, generated, synthetic_flights,
                   synthetic_activities, instance, served>>

\* the three generating phases in a run during which the day does not change
\* after construction
AnalyzeFlightArea == AnalyzeFlightAreaAt(steady(now))

AnalyzeMilitaryBase == AnalyzeMilitaryBaseAt(steady(now))

AnalyzeSocialTerm == AnalyzeSocialTermAt(steady(now))

Next ==
    \/ Analyze
    \/ AnalyzeSatelliteSite
    \/ AnalyzeFlightArea
    \/ AnalyzeMilitaryBase
    \/ AnalyzeSocialTerm
    \/ GenerateSummary

Spec == Init /\ [][Next]_vars

----------------------------------------------------------------------------
(* The pipeline with a running clock.  start_date and end_date are strings  *)
(* fixed by __init__; every generator calls datetime.now() again for every  *)
(* record it builds, so the day may have changed in between, also between   *)
(* two records of one batch.                                                *)

\* midnight passes between two loop iterations of analyze(), or before
\* analyze() is called: datetime.now() returns the next day from here on
Tick ==
    /\ pc \notin {"done", "raised"}
    /\ now < MaxTicks
    /\ now' = now + 1
    /\ UNCHANGED <<days, include_synthetic, start_date, end_date, results,
                   seed, pc, idx, calls, visited, errors, current_term,
                   unreachable, tweets, requests, generated, summary_file,
                   json_file, synthetic_flights, synthetic_activities,
                   instance, served>>

\* the generating phases with midnight passing at any of their clock reads
AnalyzeFlightAreaOvernight ==
    \E clock \in clocks_from(now) : AnalyzeFlightAreaAt(clock)

AnalyzeMilitaryBaseOvernight ==
    \E clock \in clocks_from(now) : AnalyzeMilitaryBaseAt(clock)

AnalyzeSocialTermOvernight ==
    \E clock \in clocks_from(now) : AnalyzeSocialTermAt(clock)

NextClock ==
    \/ Analyze
    \/ AnalyzeSatelliteSite
    \/ AnalyzeFlightAreaOvernight
    \/ AnalyzeMilitaryBaseOvernight
    \/ AnalyzeSocialTermOvernight
    \/ GenerateSummary
    \/ Tick

SpecClock == Init /\ [][NextClock]_vars

----------------------------------------------------------------------------
(* _generate_synthetic_flight_data on its own: one call, iteration by       *)
(* iteration, with the altitude and the speed of every record drawn freely. *)

InitFlightData ==
    /\ days \in {-1, MaxDays}
    /\ include_synthetic = TRUE
    /\ now = 0
    /\ start_date = days_ago(now, days)
    /\ end_date = days_ago(now, 0)
    /\ results = [ satellite_analysis |-> <<>>, flight_data |-> <<>>,
                   military_movements |-> <<>>, social_media |-> <<>> ]
    /\ seed \in Unit
    /\ pc = "_generate_synthetic_flight_data"
    /\ idx = 1
    /\ calls = <<>>
    /\ visited = <<>>
    /\ errors = <<>>
    /\ current_term = ""
    /\ unreachable = TRUE
    /\ tweets = <<>>
    /\ requests = <<>>
    /\ generated = <<>>
    /\ summary_file = NoFile
    /\ json_file = NoFile
    /\ synthetic_flights = <<>>
    /\ synthetic_activities = <<>>
    /\ instance = 1
    /\ served = <<>>

\* one iteration of "for i in range(5)"
GenerateFlight ==
    /\ pc = "_generate_synthetic_flight_data"
    /\ Len(synthetic_flights) < RecordsPerCall
    /\ \/ /\ randint_raises(0, days)
          /\ pc' = "raised"
          /\ UNCHANGED synthetic_flights
       \/ /\ ~randint_raises(0, days)
          /\ \E ua \in Unit, us \in Unit :
               synthetic_flights' = Append(synthetic_flights,
                   flight(Len(synthetic_flights), now, days,
                          [seeded(seed) EXCEPT !.altitude = ua, !.speed = us]))
          /\ UNCHANGED pc
    /\ UNCHANGED <<days, include_synthetic, start_date, end_date, results, now,
                   seed, idx, calls, visited, errors, current_term, unreachable,
                   tweets, requests, generated, summary_file, json_file,
                   synthetic_activities, instance, served>>

\* "return synthetic_flights"
ReturnFlights ==
    /\ pc = "_generate_synthetic_flight_data"
    /\ Len(synthetic_flights) = RecordsPerCall
    /\ pc' = "returned"
    /\ UNCHANGED <<days, include_synthetic, start_date, end_date, results, now,
                   seed, idx, calls, visited, errors, current_term, unreachable,
                   tweets, requests, generated, summary_file, json_file,
                   synthetic_flights, synthetic_activities,
                   instance, served>>

NextFlightData == GenerateFlight \/ ReturnFlights

SpecFlightData == InitFlightData /\ [][NextFlightData]_vars

----------------------------------------------------------------------------
(* _generate_synthetic_military_data on its own: one call for one base,     *)
(* iteration by iteration, with the activity type of every record drawn     *)
(* freely from the weighted table.                                          *)

\* the points of random() * total that TLC tries: both ends of every band
band_ends(w) ==
    {cum_weights(w, k - 1) : k \in DOMAIN w} \cup
    {cum_weights(w, k) - 1 : k \in DOMAIN w}

\* the call _generate_synthetic_military_data(bases[idx].name, bases[idx].type)
InitMilitaryData ==
    /\ days \in {-1, MaxDays}
    /\ include_synthetic = TRUE
    /\ now = 0
    /\ start_date = days_ago(now, days)
    /\ end_date = days_ago(now, 0)
    /\ results = [ satellite_analysis |-> <<>>, flight_data |-> <<>>,
                   military_movements |-> <<>>, social_media |-> <<>> ]
    /\ seed \in Unit
    /\ pc = "_generate_synthetic_military_data"
    /\ idx \in DOMAIN bases
    /\ calls = <<>>
    /\ visited = <<>>
    /\ errors = <<>>
    /\ current_term = ""
    /\ unreachable = TRUE
    /\ tweets = <<>>
    /\ requests = <<>>
    /\ generated = <<>>
    /\ summary_file = NoFile
    /\ json_file = NoFile
    /\ synthetic_flights = <<>>
    /\ synthetic_activities = <<>>
    /\ instance = 1
    /\ served = <<>>

\* one iteration of "for i in range(5)"
GenerateActivity ==
    /\ pc = "_generate_synthetic_military_data"
    /\ Len(synthetic_activities) < RecordsPerCall
    /\ \/ /\ randint_raises(0, days)
          /\ pc' = "raised"
          /\ UNCHANGED synthetic_activities
       \/ /\ ~randint_raises(0, days)
          /\ \E x \in band_ends(weights) :
               synthetic_activities' = Append(synthetic_activities,
                   activity(bases[idx].name, now, days,
                            [seeded(seed) EXCEPT !.kind = x]))
          /\ UNCHANGED pc
    /\ UNCHANGED <<days, include_synthetic, start_date, end_date, results, now,
                   seed, idx, calls, visited, errors, current_term, unreachable,
                   tweets, requests, generated, summary_file, json_file,
                   synthetic_flights, instance, served>>

\* "return synthetic_activities"
ReturnActivities ==
    /\ pc = "_generate_synthetic_military_data"
    /\ Len(synthetic_activities) = RecordsPerCall
    /\ pc' = "returned"
    /\ UNCHANGED <<days, include_synthetic, start_date, end_date, results, now,
                   seed, idx, calls, visited, errors, current_term, unreachable,
                   tweets, requests, generated, summary_file, json_file,
                   synthetic_flights, synthetic_activities, instance, served>>

NextMilitaryData == GenerateActivity \/ ReturnActivities

SpecMilitaryData == InitMilitaryData /\ [][NextMilitaryData]_vars

----------------------------------------------------------------------------
(* _scrape_social_media on its own: one call for one search term, mirror by *)
(* mirror, each mirror answering in any way.                                *)

\* a page with n timeline items of which those in b fail to parse
Page(n, b) == [kind |-> "ok", divs |-> n, bad |-> b]

\* the answers of a mirror: an exception of requests.get (unreachable,
\* timeout), a status other than 200, a page without timeline items, and
\* pages of 1 and of MaxDivs items of which none, the first or all fail
ScrapeResponses ==
    {Raise, Non200, Page(0, {})} \cup
    UNION {{Page(n, {}), Page(n, {1}), Page(n, 1 .. n)} : n \in {1, MaxDivs}}

\* the call _scrape_social_media(current_term)
InitScrape ==
    /\ days = MaxDays
    /\ include_synthetic \in BOOLEAN
    /\ now = 0
    /\ start_date = days_ago(now, days)
    /\ end_date = days_ago(now, 0)
    /\ results = [ satellite_analysis |-> <<>>, flight_data |-> <<>>,
                   military_movements |-> <<>>, social_media |-> <<>> ]
    /\ seed = 0
    /\ pc = "_scrape_social_media"
    /\ idx \in DOMAIN search_terms
    /\ calls = <<>>
    /\ visited = <<>>
    /\ errors = <<>>
    /\ current_term = search_terms[idx]
    /\ unreachable = TRUE
    /\ tweets = <<>>
    /\ requests = <<>>
    /\ generated = <<>>
    /\ summary_file = NoFile
    /\ json_file = NoFile
    /\ synthetic_flights = <<>>
    /\ synthetic_activities = <<>>
    /\ instance = 1
    /\ served = <<>>

\* one iteration of "for instance in nitter_instances": the GET and what the
\* body makes of the answer
RequestInstance ==
    /\ pc = "_scrape_social_media"
    /\ instance <= Len(nitter_instances)
    /\ \E r \in ScrapeResponses :
         LET t == try_instance(instance, r)
         IN  /\ requests' = Append(requests, instance)
             /\ served' = Append(served, r)
             /\ unreachable' = (unreachable /\ r.kind = "raise")
             /\ CASE t.outcome = "return" ->
                       /\ tweets' = t.tweets
                       /\ pc' = "returned"
                       /\ UNCHANGED instance
                  [] t.outcome = "continue" ->
                       /\ instance' = instance + 1
                       /\ UNCHANGED <<tweets, pc>>
                  [] OTHER ->
                       /\ pc' = "raised"
                       /\ UNCHANGED <<tweets, instance>>
    /\ UNCHANGED <<days, include_synthetic, start_date, end_date, results, now,
                   seed, idx, calls, visited, errors, current_term, generated,
                   summary_file, json_file, synthetic_flights,
                   synthetic_activities>>

\* the loop has run out of mirrors: "All Nitter instances failed", return []
ReturnNoTweets ==
    /\ pc = "_scrape_social_media"
    /\ instance > Len(nitter_instances)
    /\ tweets' = <<>>
    /\ pc' = "returned"
    /\ UNCHANGED <<days, include_synthetic, start_date, end_date, results, now,
                   seed, idx, calls, visited, errors, current_term, unreachable,
                   requests, generated, summary_file, json_file,
                   synthetic_flights, synthetic_activities, instance, served>>

NextScrape == RequestInstance \/ ReturnNoTweets

SpecScrape == InitScrape /\ [][NextScrape]_vars

\* a call that has started runs on until it returns: every GET ends, by an
\* answer or by the 10-second timeout
SpecScrapeFair == SpecScrape /\ WF_vars(NextScrape)

----------------------------------------------------------------------------
(* Properties *)

Range(seq) == {seq[k] : k \in DOMAIN seq}

Last(seq) == seq[Len(seq)]

\* P holds of every post of every sub-record of a social_media collection
every_post(collection, P(_)) ==
    \A k \in DOMAIN collection :
        \A j \in DOMAIN collection[k].posts : P(collection[k].posts[j])

\* P holds of some post of some sub-record of a social_media collection
some_post(collection, P(_)) ==
    \E k \in DOMAIN collection :
        \E j \in DOMAIN collection[k].posts : P(collection[k].posts[j])

\* the activity records a sub-record carries under `field` (none without it)
samples(sub_record, field) ==
    IF field \in DOMAIN sub_record THEN sub_record[field] ELSE <<>>

\* P holds of every activity record attached under `field` in a collection
every_sample(collection, field, P(_)) ==
    \A k \in DOMAIN collection :
        \A j \in DOMAIN samples(collection[k], field) :
            P(samples(collection[k], field)[j])

is_synthetic(r) == "synthetic" \in DOMAIN r /\ r.synthetic = TRUE

is_real(r) == "synthetic" \in DOMAIN r /\ r.synthetic = FALSE

\* C1: in analyze_social_media, when _scrape_social_media returned a non-empty
\* sequence for the term, _generate_synthetic_social_media was not invoked for
\* that term and the sub-record of the term holds exactly the fetched posts,
\* all with synthetic = false, whatever the synthetic flag is.
C1_FetchedPostsAreKept ==
    tweets # <<>> =>
        /\ current_term \notin Range(generated)
        /\ results.social_media # <<>>
        /\ Last(results.social_media).search_term = current_term
        /\ Last(results.social_media).posts = tweets
        /\ \A k \in DOMAIN tweets : tweets[k].synthetic = FALSE

\* C1 witness: with the synthetic flag on, one term was filled by the
\* generator and a later term was fetched from a mirror.
C1_Witness ==
    /\ include_synthetic
    /\ tweets # <<>>
    /\ generated # <<>>
    /\ current_term = search_terms[3]
    /\ Last(results.social_media).posts = tweets

\* C2: with synthetic data enabled and every mirror unreachable for every
\* term, analyze() returns with a non-empty social_media collection in which
\* every post of every sub-record has synthetic = true.
C2_UnreachableMirrorsGiveSyntheticPosts ==
    (pc = "done" /\ include_synthetic /\ unreachable) =>
        /\ results.social_media # <<>>
        /\ \A k \in DOMAIN results.social_media :
               results.social_media[k].posts # <<>>
        /\ every_post(results.social_media, is_synthetic)

\* C2 witness: such a run has returned, with one sub-record per search term.
C2_Witness ==
    /\ pc = "done"
    /\ include_synthetic
    /\ unreachable
    /\ Len(requests) = Len(nitter_instances)
    /\ Len(results.social_media) = Len(search_terms)

\* C3: with synthetic data disabled and every mirror unreachable for every
\* term, the social_media collection holds zero entries when analyze()
\* returns (and at every point before): no term is recorded, not even as an
\* empty sub-record.
C3_UnreachableMirrorsGiveNoEntries ==
    (~include_synthetic /\ unreachable) => results.social_media = <<>>

\* C3 witness: such a run has returned after trying every mirror for the
\* last term.
C3_Witness ==
    /\ pc = "done"
    /\ ~include_synthetic
    /\ unreachable
    /\ current_term = search_terms[Len(search_terms)]
    /\ Len(requests) = Len(nitter_instances)
    /\ json_file.social_media = <<>>

\* C4 (state part): every activity record of the result carries a synthetic
\* flag; it is true for the records of the three generators and false for the
\* records of the fetcher.
C4_FlagsTellProvenance ==
    /\ every_sample(results.flight_data, "synthetic_sample_data", is_synthetic)
    /\ every_sample(results.military_movements, "synthetic_activity_data",
                    is_synthetic)
    /\ every_post(results.social_media,
           LAMBDA p : /\ "synthetic" \in DOMAIN p
                      /\ p.synthetic \in BOOLEAN
                      /\ p.synthetic = TRUE <=> p.platform = "Twitter (synthetic)"
                      /\ p.synthetic = FALSE <=> p.platform = "Twitter")
    /\ \A k \in DOMAIN tweets : is_real(tweets[k])
    /\ \A k \in DOMAIN results.social_media :
           LET sub == results.social_media[k]
           IN  /\ sub.search_term \in Range(generated)
                     => \A j \in DOMAIN sub.posts : is_synthetic(sub.posts[j])
               /\ sub.search_term \notin Range(generated)
                     => \A j \in DOMAIN sub.posts : is_real(sub.posts[j])

\* C4 (step part): a step leaves untouched the activity records the result
\* already holds.
C4_RecordsAreFrozen ==
    /\ \A k \in DOMAIN results.military_movements :
           results'.military_movements[k] = results.military_movements[k]
    /\ \A k \in DOMAIN results.social_media :
           results'.social_media[k] = results.social_media[k]
    /\ \A k \in DOMAIN results.flight_data :
           "synthetic_sample_data" \in DOMAIN results.flight_data[k] =>
               results'.flight_data[k] = results.flight_data[k]

\* C4: in every reachable state every activity record held in the result
\* carries an explicit synthetic flag, true exactly for the records created
\* by the generators and false exactly for those created by the web fetcher,
\* and no step changes a record after it was appended.
C4_ProvenanceFlag == []C4_FlagsTellProvenance /\ [][C4_RecordsAreFrozen]_vars

\* C4 witness: the result holds flight, military and social records of both
\* provenances.
C4_Witness ==
    /\ pc = "done"
    /\ \A k \in DOMAIN areas :
           Len(samples(results.flight_data[k], "synthetic_sample_data"))
               = RecordsPerCall
    /\ \A k \in DOMAIN bases :
           Len(samples(results.military_movements[k], "synthetic_activity_data"))
               = RecordsPerCall
    /\ some_post(results.social_media, is_synthetic)
    /\ some_post(results.social_media, is_real)

\* C5: when the synthetic flag is false, no record with synthetic = true is
\* anywhere in the result: the flight and military sub-records carry no
\* synthetic record list at all and every social post has synthetic = false.
C5_NoSyntheticWhenDisabled ==
    ~include_synthetic =>
        /\ \A k \in DOMAIN results.flight_data :
               "synthetic_sample_data" \notin DOMAIN results.flight_data[k]
        /\ \A k \in DOMAIN results.military_movements :
               "synthetic_activity_data" \notin
                   DOMAIN results.military_movements[k]
        /\ every_post(results.social_media, is_real)
        /\ generated = <<>>

\* C5 witness: a run without synthetic data has returned with all flight and
\* military sub-records and with posts fetched from a mirror.
C5_Witness ==
    /\ pc = "done"
    /\ ~include_synthetic
    /\ Len(results.flight_data) = Len(areas)
    /\ Len(results.military_movements) = Len(bases)
    /\ some_post(results.social_media, is_real)

IsPrefix(a, b) == Len(a) <= Len(b) /\ a = SubSeq(b, 1, Len(a))

\* the four phases and the serializer, in the order the claim gives
phase_order ==
    << "analyze_satellite_imagery", "analyze_flight_data",
       "analyze_military_movements", "analyze_social_media",
       "generate_summary" >>

\* every entry of every phase table, phase by phase and in table order
RECURSIVE iterations_from(_)
iterations_from(k) ==
    IF k > Len(phase_order) THEN <<>>
    ELSE [j \in 1 .. Len(table(phase_order[k])) |-> <<phase_order[k], j>>]
             \o iterations_from(k + 1)

\* the number of table entries of the phases before the k-th call
RECURSIVE entries_before(_)
entries_before(k) ==
    IF k <= 1 THEN 0
    ELSE Len(table(phase_order[k - 1])) + entries_before(k - 1)

\* the position of a name in a table of names
position(names, x) == CHOOSE i \in DOMAIN names : names[i] = x

\* the names are names of the table, without repetition, in table order
in_table_order(names, tbl) ==
    /\ \A k \in DOMAIN names : names[k] \in Range(tbl)
    /\ \A j, k \in DOMAIN names :
           j < k => position(tbl, names[j]) < position(tbl, names[k])

\* C6: analyze() runs satellite, flight, military, social media in this
\* order, each phase going through its whole table before the next starts and
\* appending its sub-records in table order; generate_summary is invoked at
\* most once, only after all four phases have completed, and exactly once in
\* a call of analyze() that returns.
C6_PhasesInSequence ==
    /\ IsPrefix(calls, phase_order)
    /\ IsPrefix(visited, iterations_from(1))
    /\ Len(visited) >= entries_before(Len(calls))
    /\ \A k \in DOMAIN visited : visited[k][1] \in Range(calls)
    /\ in_table_order(
           [k \in DOMAIN results.satellite_analysis |->
               results.satellite_analysis[k].site_name], nuclear_sites)
    /\ [k \in DOMAIN results.flight_data |-> results.flight_data[k].area]
           = [k \in 1 .. Len(results.flight_data) |-> areas[k].name]
    /\ [k \in DOMAIN results.military_movements |->
           results.military_movements[k].base_name]
           = [k \in 1 .. Len(results.military_movements) |-> bases[k].name]
    /\ in_table_order(
           [k \in DOMAIN results.social_media |->
               results.social_media[k].search_term], search_terms)
    /\ "generate_summary" \in Range(calls)
           => Len(visited) = Len(iterations_from(1))
    /\ pc = "done" => Cardinality({k \in DOMAIN calls :
                                      calls[k] = "generate_summary"}) = 1
    /\ "generate_summary" \notin Range(calls)
           => pc # "done" /\ summary_file = NoFile /\ json_file = NoFile

\* C6 witness: analyze() has returned after the four phases and the
\* serializer, with posts recorded for the last term only.
C6_Witness ==
    /\ pc = "done"
    /\ calls = phase_order
    /\ Len(visited) = 18
    /\ Len(results.social_media) = 1
    /\ results.social_media[1].search_term = search_terms[5]

\* C7 (as claimed): in each of the four phases an exception raised while
\* processing one table entry is caught and logged and only that entry is
\* skipped, so no failure of a phase is surfaced out of analyze(): analyze()
\* raises only from the serializer, and every entry of every table is visited
\* before the serializer is called or analyze() ends.
C7_EntryFailuresAreContained ==
    /\ pc = "raised" => "generate_summary" \in Range(calls)
    /\ pc \in {"raised", "done"} => Len(visited) = Len(iterations_from(1))

\* the sites whose placeholder image could not be created
failed_sites == {errors[k][2] : k \in DOMAIN errors}

satellite_phase_ended == "analyze_flight_data" \in Range(calls)

\* C8 (as claimed): the satellite phase always ends with exactly 5
\* sub-records, one per site in table order, each with exactly 2 external
\* source references, whatever happens while the placeholders are created.
C8_AlwaysFiveSubRecords ==
    satellite_phase_ended =>
        /\ Len(results.satellite_analysis) = Len(nuclear_sites)
        /\ \A k \in DOMAIN results.satellite_analysis :
               /\ results.satellite_analysis[k].site_name = nuclear_sites[k]
               /\ Len(results.satellite_analysis[k].satellite_sources) = 2

\* C8 (amended): the satellite phase ends with one sub-record for each site
\* whose placeholder image was created without an exception, in table order,
\* each with exactly 2 external source references: exactly 5 when no creation
\* raises, and one less for every site whose creation raised (that site is
\* logged and skipped).
C8_OneSubRecordPerSavedSite ==
    satellite_phase_ended =>
        /\ [k \in DOMAIN results.satellite_analysis |->
               results.satellite_analysis[k].site_name]
               = SelectSeq(nuclear_sites, LAMBDA x : x \notin failed_sites)
        /\ Len(results.satellite_analysis)
               = Len(nuclear_sites) - Len(errors)
        /\ errors = <<>> => Len(results.satellite_analysis) = 5
        /\ \A k \in DOMAIN results.satellite_analysis :
               Len(results.satellite_analysis[k].satellite_sources) = 2

\* C8 witness: the phase has ended after the placeholder of the third site
\* failed, with the four other sites recorded.
C8_Witness ==
    /\ satellite_phase_ended
    /\ failed_sites = {nuclear_sites[3]}
    /\ Len(results.satellite_analysis) = 4

\* the posts held by the first n sub-records of a collection
RECURSIVE posts_held(_, _)
posts_held(collection, n) ==
    IF n = 0 THEN 0
    ELSE posts_held(collection, n - 1) + collection[n].results_count

\* C9: the post count written in the text summary equals the sum of
\* results_count over the social_media sub-records written to the JSON results
\* of the same run (0 for an empty collection), and the number of search terms
\* it reports equals the number of those sub-records.
C9_SummaryCountsMatchJson ==
    pc = "done" =>
        /\ summary_file.social_posts
               = posts_held(json_file.social_media, Len(json_file.social_media))
        /\ summary_file.social_terms = Len(json_file.social_media)
        /\ json_file.social_media = <<>> => summary_file.social_posts = 0

\* C9 witness: both files are written for a run whose social_media holds
\* generated and fetched posts, more posts than sub-records.
C9_Witness ==
    /\ pc = "done"
    /\ some_post(json_file.social_media, is_synthetic)
    /\ some_post(json_file.social_media, is_real)
    /\ summary_file.social_posts > summary_file.social_terms
    /\ summary_file.social_terms = Len(search_terms)

\* record k (1-based) of the list lies in the bands of its profile; with
\* top = 0 the upper bound of each band is excluded, with top = 1 it is included
in_bands(r, k, top) ==
    IF k = 1
    THEN /\ 5000 <= r.altitude /\ r.altitude < 10000 + top
         /\ 200 <= r.speed /\ r.speed < 350 + top
         /\ r.transponder = "Intermittent"
    ELSE /\ 15000 <= r.altitude /\ r.altitude < 35000 + top
         /\ 350 <= r.speed /\ r.speed < 500 + top
         /\ r.transponder = "Active"

\* C10 (as claimed): _generate_synthetic_flight_data returns exactly 5
\* records; the first has altitude in [5000,10000), speed in [200,350) and
\* transponder "Intermittent", the other four altitude in [15000,35000), speed
\* in [350,500) and transponder "Active", upper bounds excluded.
C10_BandsExcludeUpperBounds ==
    /\ pc = "returned" => Len(synthetic_flights) = 5
    /\ \A k \in DOMAIN synthetic_flights :
           in_bands(synthetic_flights[k], k, 0)

\* C10 (amended): _generate_synthetic_flight_data returns exactly 5 records;
\* the first has altitude in [5000,10000], speed in [200,350] and transponder
\* "Intermittent", the other four altitude in [15000,35000], speed in
\* [350,500] and transponder "Active", upper bounds included (the two speed
\* bands share the value 350).
C10_BandsIncludeUpperBounds ==
    /\ pc = "returned" => Len(synthetic_flights) = 5
    /\ \A k \in DOMAIN synthetic_flights :
           in_bands(synthetic_flights[k], k, 1)

\* C10 witness: the call has returned 5 records, the unusual one at altitude
\* 10000 and speed 350, a normal one at speed 350 too.
C10_Witness ==
    /\ pc = "returned"
    /\ Len(synthetic_flights) = 5
    /\ synthetic_flights[1].altitude = 10000
    /\ synthetic_flights[1].speed = 350
    /\ synthetic_flights[2].speed = 350
    /\ synthetic_flights[5].altitude = 35000

\* the record, when synthetic, is dated within [start_date, end_date]
within_date_range(r) == is_synthetic(r) => (start_date <= r.date /\ r.date <= end_date)

\* start_date lies `days` days before end_date
range_spans_days == start_date = days_ago(end_date, days)

\* C11: end_date is the day of construction and start_date lies `days` days
\* before it, and the date of every synthetic record (flight, military,
\* social) produced later in the run lies within [start_date, end_date]
\* inclusive, the record dates being computed from the clock read when the
\* record is generated.  The formula is the part about the records: every
\* synthetic record held in results is dated within the range.  (The part
\* about the range, range_spans_days, fails as well when midnight passes
\* between the two clock reads of __init__.)
C11_SyntheticDatesWithinRange ==
    /\ every_sample(results.flight_data, "synthetic_sample_data", within_date_range)
    /\ every_sample(results.military_movements, "synthetic_activity_data",
                    within_date_range)
    /\ every_post(results.social_media, within_date_range)

\* C12: for any base, _generate_synthetic_military_data returns exactly 5
\* records, each with synthetic = true and confidence "Medium - requires
\* verification", whose type is one of the five declared categories and whose
\* significance is the fixed label of that type (Normal operations and
\* Training exercise: Low; Increased readiness and Alert status change:
\* Medium; Unusual deployment: High).
declared_label(type) ==
    CASE type = "Normal operations"   -> "Low"
      [] type = "Training exercise"   -> "Low"
      [] type = "Increased readiness" -> "Medium"
      [] type = "Alert status change" -> "Medium"
      [] type = "Unusual deployment"  -> "High"
      [] OTHER                        -> "none"

C12_FiveLabelledActivities ==
    /\ pc = "returned" => Len(synthetic_activities) = 5
    /\ \A k \in DOMAIN synthetic_activities :
           LET r == synthetic_activities[k]
           IN  /\ r.synthetic = TRUE
               /\ r.confidence = "Medium - requires verification"
               /\ declared_label(r.type) # "none"
               /\ r.significance = declared_label(r.type)

\* C12 witness: a call for the last base has returned five records that
\* show all five categories, so all three labels.
C12_Witness ==
    /\ pc = "returned"
    /\ idx = Len(bases)
    /\ Len(synthetic_activities) = 5
    /\ {synthetic_activities[k].type : k \in 1 .. 5} =
           {activities[k].type : k \in 1 .. 5}
    /\ {synthetic_activities[k].significance : k \in 1 .. 5} =
           {"Low", "Medium", "High"}

\* the mirrors contacted so far are the first ones of the list, in list order
in_list_order(contacted) == \A k \in DOMAIN contacted : contacted[k] = k

\* the entries the fetcher takes from the answer r of mirror i
entries(i, r) == IF r.kind = "ok" THEN parse_tweets(i, r) ELSE <<>>

\* C13: _scrape_social_media contacts the mirrors in their list order and
\* returns immediately on the first mirror that yields at least one entry:
\* the returned entries all come from that mirror (their source names it),
\* there are at most 10 of them, and no later mirror is contacted.
C13_FirstYieldingMirrorWins ==
    /\ in_list_order(requests)
    /\ Len(served) = Len(requests)
    /\ \A i \in DOMAIN served :
           entries(i, served[i]) # <<>> =>
               /\ pc = "returned"
               /\ i = Len(requests)
               /\ tweets = entries(i, served[i])
    /\ (pc = "returned" /\ tweets # <<>>) =>
           /\ Len(tweets) <= 10
           /\ \A k \in DOMAIN tweets :
                  tweets[k].source =
                      <<"Nitter scrape via", nitter_instances[Last(requests)]>>
           /\ \A i \in 1 .. Len(requests) - 1 : entries(i, served[i]) = <<>>

\* C13 witness: the first mirror refused, the second served a page of more
\* than 10 items, and the call returned the first 10 of them without
\* contacting the third mirror.
C13_Witness ==
    /\ pc = "returned"
    /\ requests = <<1, 2>>
    /\ served[1] = Non200
    /\ served[2] = Page(MaxDivs, {})
    /\ Len(tweets) = 10
    /\ tweets[10].source = <<"Nitter scrape via", nitter_instances[2]>>

\* C14: a mirror that answers with a status other than 200, raises, or yields
\* zero entries (no timeline items, or timeline items whose parsing all
\* fails) makes the fetcher go on to the next mirror; the fetcher returns an
\* empty sequence only after every mirror of the list has been tried.
C14_EmptyOnlyAfterEveryMirror ==
    /\ \A i \in DOMAIN served :
           (entries(i, served[i]) = <<>> /\ i < Len(nitter_instances)) =>
               (pc = "_scrape_social_media" \/ Len(requests) > i)
    /\ (pc = "returned" /\ tweets = <<>>) =>
           Len(requests) = Len(nitter_instances)

\* C15: whatever the mirrors answer, _scrape_social_media terminates without
\* raising, a total failure is returned as an empty sequence, and every
\* mirror is requested at most once, so at most 3 requests are issued.
C15_NoRaiseNoRetry ==
    /\ pc # "raised"
    /\ Len(requests) <= 3
    /\ \A j, k \in DOMAIN requests : requests[j] = requests[k] => j = k
    /\ (pc = "returned" /\ \A i \in DOMAIN served : entries(i, served[i]) = <<>>)
           => tweets = <<>>

C15_TerminatesWithoutRaising == []C15_NoRaiseNoRetry /\ <>(pc = "returned")

\* C15 witness: the three mirrors failed in three ways (unreachable, refusing,
\* unexpected markup) and the call returned the empty sequence.
C15_Witness ==
    /\ pc = "returned"
    /\ served = <<Raise, Non200, Page(0, {})>>
    /\ requests = <<1, 2, 3>>
    /\ tweets = <<>>

\* the search terms recorded in a social_media collection, in its order
recorded_terms(collection) ==
    [k \in DOMAIN collection |-> collection[k].search_term]

\* C16: in every reachable state, every sub-record of social_media has at
\* least one post and its results_count is the number of posts it holds; a
\* term for which the fetcher returned nothing and the generator did not run
\* is not in the collection, and the recorded terms keep the order of the
\* search-term table.
C16_NoEmptySubRecords ==
    /\ \A k \in DOMAIN results.social_media :
           /\ Len(results.social_media[k].posts) >= 1
           /\ results.social_media[k].results_count
                  = Len(results.social_media[k].posts)
    /\ (tweets = <<>> /\ current_term \notin Range(generated)) =>
           current_term \notin Range(recorded_terms(results.social_media))
    /\ in_table_order(recorded_terms(results.social_media), search_terms)

\* C16 witness: with synthetic data disabled the run has returned with a
\* single sub-record, for the third term, whose one fetched post is counted;
\* the other four terms, the last one included, are omitted.
C16_Witness ==
    /\ pc = "done"
    /\ ~include_synthetic
    /\ tweets = <<>>
    /\ current_term = search_terms[5]
    /\ recorded_terms(results.social_media) = <<search_terms[3]>>
    /\ results.social_media[1].results_count = 1
    /\ Len(results.social_media[1].posts) = 1

====
